---- MODULE Spec2Model ----
(***************************************************************************)
(* State-machine model of VPCProfileAnalyzer (src/vpc_profile_analyzer.py):*)
(* profile creation, point extraction along the profile line, and the      *)
(* elevation / terrain / roughness analysis of the extracted points.       *)
(*                                                                         *)
(* Coordinates, elevations and buffer distances are integers (map units).  *)
(* The profile line built by get_profile_line is always the horizontal     *)
(* segment through the centre of the layer extent.                         *)
(***************************************************************************)
EXTENDS Integers, Sequences, FiniteSets, TLC

\* ------------------------------------------------------------------ bounds
MaxRecords == 2        \* longest layer over the full record universe
MaxPlainRecords == 5   \* longest layer over the well-formed in-line records
MaxBuffer == 2         \* largest value of the buffer spin box
LineLen == 4           \* x-extent of the non-degenerate layers
MaxStatRecords == 5    \* longest layer of the statistics specification
MaxAttrValue == 2      \* largest attribute value of the visible statistics
MaxClassSteps == 1     \* class counts above the default in the debounce specification
MaxSizeSteps == 1      \* point sizes above the default, in tenths
TickMs == 250          \* longest step of time
MaxDisplay == 2        \* longest number typed into the display
MaxDecimals == 0       \* most decimals of a calculated value
MaxValue == 3          \* largest magnitude of a calculated value

\* ------------------------------------------------- values of a point record
\* A field of the dict yielded by the provider: a number, a key that is not
\* in the dict, or a value that is not a number.  PyNone is Python's None.
Num(n) == [t |-> "num", v |-> n]
Missing == [t |-> "missing", v |-> 0]
NonNumeric == [t |-> "str", v |-> 0]
PyNone == [t |-> "none", v |-> 0]

Rec(x, y, z, i, c) == [X |-> x, Y |-> y, Z |-> z, Intensity |-> i, Classification |-> c]

\* point_data.get(key): None when the key is missing
DictGet(field) == IF field = Missing THEN PyNone ELSE field

\* point_data.get(key, default)
DictGetDefault(field, default) == IF field = Missing THEN Num(default) ELSE field

\* ----------------------------------------------------------------- inputs
\* The records a layer may hold.  Positions are relative to the extent
\* x in [0, LineLen], centre y = 0.
InlineRecords ==
    { Rec(Num(1), Num(0), Num(5), Num(50), Num(2)),
      Rec(Num(LineLen - 1), Num(0), Num(8), Missing, Missing) }

RawRecords ==
    InlineRecords \cup
    { Rec(Num(2), Num(1), Num(6), Num(60), Missing),
      Rec(Num(1), Num(MaxBuffer + 1), Num(7), Num(40), Num(2)),
      Rec(Num(0 - 1), Num(0), Num(4), Missing, Num(1)),
      Rec(Missing, Num(0), Num(5), Num(50), Num(2)),
      Rec(Num(LineLen - 1), Num(0), Missing, Num(70), Num(2)),
      Rec(Num(1), Num(0), NonNumeric, Missing, Missing) }

SeqsOfLen(S, lo, hi) == UNION { [1..k -> S] : k \in lo..hi }

Extents ==
    { [xMin |-> 0, xMax |-> LineLen, cy |-> 0],
      [xMin |-> 1, xMax |-> 1, cy |-> 0] }

Layers ==
    { [extent |-> e, records |-> s] :
        e \in Extents,
        s \in SeqsOfLen(RawRecords, 0, MaxRecords)
              \cup SeqsOfLen(InlineRecords, MaxRecords + 1, MaxPlainRecords) }

\* Layers of well-formed records on the profile line: two kinds at the start
\* of the line, one at its end; the first and the last lie on the trend
\* elevation = 2 * distance + 5.
StatRecords ==
    { Rec(Num(1), Num(0), Num(5), Num(50), Num(2)),
      Rec(Num(1), Num(0), Num(8), Missing, Missing),
      Rec(Num(LineLen - 1), Num(0), Num(2 * LineLen + 5), Num(60), Num(2)) }

\* three records with the elevations 5, 8 and 6
ExampleRecords ==
    { Rec(Num(1), Num(0), Num(5), Num(50), Num(2)),
      Rec(Num(1), Num(0), Num(8), Missing, Missing),
      Rec(Num(LineLen - 1), Num(0), Num(6), Num(40), Num(1)) }

StatLayers ==
    { [extent |-> [xMin |-> 0, xMax |-> LineLen, cy |-> 0], records |-> s] :
        s \in SeqsOfLen(StatRecords, 1, MaxStatRecords)
              \cup SeqsOfLen(ExampleRecords, 3, 3) }

Buffers == 1..MaxBuffer

\* --------------------------------------------------------------- geometry
NoLine == <<>>

Abs(n) == IF n < 0 THEN 0 - n ELSE n

SqDist(p, q) == (p.x - q.x) * (p.x - q.x) + (p.y - q.y) * (p.y - q.y)

\* QgsLineString.length() of the two-vertex horizontal line
LineLength(line) == line[2].x - line[1].x

\* QgsGeometry.closestVertex: the first vertex at minimal distance
ClosestVertex(line, p) ==
    IF SqDist(p, line[2]) < SqDist(p, line[1]) THEN line[2] ELSE line[1]

\* QgsGeometry.lineLocatePoint: arc length of the nearest point on the line
LineLocatePoint(line, p) ==
    IF p.x <= line[1].x THEN 0
    ELSE IF p.x >= line[2].x THEN LineLength(line)
    ELSE p.x - line[1].x

\* squared distance from p to the nearest point of the line
SqDistToLine(line, p) ==
    LET dx == IF p.x < line[1].x THEN line[1].x - p.x
              ELSE IF p.x > line[2].x THEN p.x - line[2].x
              ELSE 0
        dy == p.y - line[1].y
    IN dx * dx + dy * dy

\* buffer(distance, 5): round caps are polygons with 5 segments per quarter
\* circle, vertices at multiples of 18 degrees; sines and cosines x 1000.
QuadSegs == 5
Sin18 == <<0, 309, 588, 809, 951, 1000>>
Cos18 == <<1000, 951, 809, 588, 309, 0>>

\* p = (dx, dy), dx > 0, dy >= 0, relative to the end vertex: strictly on the
\* inner side of edge k of the cap polygon of radius b
InsideCapEdge(b, k, dx, dy) ==
    LET vx == b * Sin18[k]
        vy == b * Cos18[k]
        wx == b * Sin18[k + 1]
        wy == b * Cos18[k + 1]
    IN (wx - vx) * (1000 * dy - vy) - (wy - vy) * (1000 * dx - vx) < 0

\* contains against a buffer of twice the distance
Contains_DoubleBuffer(line, b, p) ==
    LET dx == IF p.x < line[1].x THEN line[1].x - p.x
              ELSE IF p.x > line[2].x THEN p.x - line[2].x
              ELSE 0
        dy == Abs(p.y - line[1].y)
    IN IF dx = 0 THEN dy < 2 * b
       ELSE \A k \in 1..QuadSegs : InsideCapEdge(2 * b, k, dx, dy)

\* buffered_geometry.contains(point): interior of the buffer polygon
Contains(line, b, p) ==
    LET dx == IF p.x < line[1].x THEN line[1].x - p.x
              ELSE IF p.x > line[2].x THEN p.x - line[2].x
              ELSE 0
        dy == Abs(p.y - line[1].y)
    IN IF dx = 0 THEN dy < b
       ELSE \A k \in 1..QuadSegs : InsideCapEdge(b, k, dx, dy)

\* the x offset of the position from the start vertex, not located on the line
DistanceAlongProfile_RawOffset(line, p) == p.x - line[1].x

\* lines 402-403: the distance the code stores for an accepted position
DistanceAlongProfile(line, p) == LineLocatePoint(line, ClosestVertex(line, p))

\* ------------------------------------------------------------- extraction
ProfilePoint(x, y, z, d, i, c) ==
    [x |-> x, y |-> y, z |-> z, distance |-> d, intensity |-> i,
     classification |-> c, original_coords |-> <<x, y, z>>]

\* The while loop of extract_profile_points from record i on.  raised is
\* TRUE when an exception left the loop: KeyError for a missing X or Y,
\* TypeError for a non-numeric X or Y, ZeroDivisionError in the progress
\* computation of a zero-length line (after the point was appended).
RECURSIVE ExtractLoop(_, _, _, _, _, _)
ExtractLoop(records, line, b, i, pts, prog) ==
    IF i > Len(records)
    THEN [points |-> pts, progress |-> prog, raised |-> FALSE]
    ELSE LET r == records[i] IN
         IF r.X.t # "num" \/ r.Y.t # "num"
         THEN [points |-> pts, progress |-> prog, raised |-> TRUE]
         ELSE LET p == [x |-> r.X.v, y |-> r.Y.v]
                  z == DictGetDefault(r.Z, 0)
              IN IF ~Contains(line, b, p)
                 THEN ExtractLoop(records, line, b, i + 1, pts, prog)
                 ELSE LET d == DistanceAlongProfile(line, p)
                          pt == ProfilePoint(p.x, p.y, z, d, DictGet(r.Intensity),
                                             DictGet(r.Classification))
                          pts2 == Append(pts, pt)
                      IN IF LineLength(line) = 0
                         THEN [points |-> pts2, progress |-> prog, raised |-> TRUE]
                         ELSE ExtractLoop(records, line, b, i + 1, pts2,
                                          Append(prog, (d * 100) \div LineLength(line)))

\* ------------------------------------------------------------ arithmetic
\* Exact rationals [n, d] in lowest terms with d > 0 stand for the floats.
RECURSIVE GCD(_, _)
GCD(a, b) == IF b = 0 THEN a ELSE GCD(b, a % b)

Frac(n, d) ==
    LET g == GCD(Abs(n), Abs(d))
        s == IF d < 0 THEN 0 - 1 ELSE 1
    IN [n |-> (s * n) \div g, d |-> (s * d) \div g]

Zero == Frac(0, 1)
FInt(n) == Frac(n, 1)
FAdd(a, b) == Frac(a.n * b.d + b.n * a.d, a.d * b.d)
FSub(a, b) == Frac(a.n * b.d - b.n * a.d, a.d * b.d)
FMul(a, b) == Frac(a.n * b.n, a.d * b.d)
FLess(a, b) == a.n * b.d < b.n * a.d
FAbs(a) == [n |-> Abs(a.n), d |-> a.d]

RECURSIVE SeqSum(_)
SeqSum(s) == IF s = <<>> THEN 0 ELSE Head(s) + SeqSum(Tail(s))

RECURSIVE FSum(_)
FSum(s) == IF s = <<>> THEN Zero ELSE FAdd(Head(s), FSum(Tail(s)))

SeqMin(s) == CHOOSE m \in { s[i] : i \in DOMAIN s } : \A i \in DOMAIN s : m <= s[i]
SeqMax(s) == CHOOSE m \in { s[i] : i \in DOMAIN s } : \A i \in DOMAIN s : s[i] <= m
FMin(s) == CHOOSE m \in { s[i] : i \in DOMAIN s } : \A i \in DOMAIN s : ~FLess(s[i], m)
FMax(s) == CHOOSE m \in { s[i] : i \in DOMAIN s } : \A i \in DOMAIN s : ~FLess(m, s[i])

\* the midrange in place of the mean
Mean_Midrange(s) == Frac(SeqMin(s) + SeqMax(s), 2)

\* np.mean
Mean(s) == Frac(SeqSum(s), Len(s))

\* np.std (population), represented by its square
StdSquared(s) ==
    LET n == Len(s)
        sq == [i \in DOMAIN s |-> s[i] * s[i]]
    IN Frac(n * SeqSum(sq) - SeqSum(s) * SeqSum(s), n * n)

FStdSquared(s) ==
    LET n == FInt(Len(s))
        m == FMul(FSum(s), Frac(1, Len(s)))
        sq == [i \in DOMAIN s |-> FMul(FSub(s[i], m), FSub(s[i], m))]
    IN FMul(FSum(sq), Frac(1, Len(s)))

\* ---------------------------------------------------------------- sorting
\* a sort that puts a point before the points of equal distance: not stable
RECURSIVE InsertByDistance_BeforeTies(_, _)
InsertByDistance_BeforeTies(sorted, p) ==
    IF sorted = <<>> THEN <<p>>
    ELSE IF sorted[Len(sorted)].distance < p.distance THEN Append(sorted, p)
    ELSE Append(InsertByDistance_BeforeTies(SubSeq(sorted, 1, Len(sorted) - 1), p),
                sorted[Len(sorted)])

\* list.sort(key=lambda p: p.distance): stable, ascending
RECURSIVE InsertByDistance(_, _)
InsertByDistance(sorted, p) ==
    IF sorted = <<>> THEN <<p>>
    ELSE IF sorted[Len(sorted)].distance <= p.distance THEN Append(sorted, p)
    ELSE Append(InsertByDistance(SubSeq(sorted, 1, Len(sorted) - 1), p),
                sorted[Len(sorted)])

\* a sort that takes the points from the last to the first: ascending, with
\* the points of one distance in reverse order
RECURSIVE SortByDistance_TiesReversed(_)
SortByDistance_TiesReversed(pts) ==
    IF pts = <<>> THEN <<>>
    ELSE InsertByDistance(SortByDistance_TiesReversed(Tail(pts)), Head(pts))

RECURSIVE SortByDistance(_)
SortByDistance(pts) ==
    IF pts = <<>> THEN <<>>
    ELSE InsertByDistance(SortByDistance(SubSeq(pts, 1, Len(pts) - 1)), pts[Len(pts)])

IsSortedByDistance(pts) ==
    \A i \in 1..(Len(pts) - 1) : pts[i].distance <= pts[i + 1].distance

\* ------------------------------------------------------------- statistics
\* A Python dict is a function on its keys; EmptyDict is {}.
EmptyDict == <<>>

Elevations(pts) == [i \in DOMAIN pts |-> pts[i].z.v]
Distances(pts) == [i \in DOMAIN pts |-> pts[i].distance]
\* the intensities with None counted as 0
Intensities_NoneAsZero(pts) ==
    [i \in DOMAIN pts |-> IF pts[i].intensity = PyNone THEN 0 ELSE pts[i].intensity.v]

Intensities(pts) ==
    LET sel == SelectSeq(pts, LAMBDA p : p.intensity # PyNone)
    IN [i \in DOMAIN sel |-> sel[i].intensity.v]

\* min / np.mean over the elevations raise TypeError on a non-numeric z
BasicStatisticsRaises(pts) ==
    pts # <<>> /\ \E i \in DOMAIN pts : pts[i].z.t # "num"

\* compute_basic_statistics
ComputeBasicStatistics(pts) ==
    IF pts = <<>> THEN EmptyDict
    ELSE LET elevations == Elevations(pts)
             distances == Distances(pts)
             intensities == Intensities(pts)
             stats == [point_count |-> Len(pts),
                       profile_length |-> SeqMax(distances) - SeqMin(distances),
                       elevation_stats |->
                           [min |-> SeqMin(elevations),
                            max |-> SeqMax(elevations),
                            mean |-> Mean(elevations),
                            std |-> StdSquared(elevations),
                            range |-> SeqMax(elevations) - SeqMin(elevations)]]
         IN IF intensities # <<>>
            THEN stats @@ [intensity_stats |->
                              [min |-> SeqMin(intensities),
                               max |-> SeqMax(intensities),
                               mean |-> Mean(intensities),
                               std |-> StdSquared(intensities)]]
            ELSE stats

\* the slopes with an equal-distance pair recorded as slope 0
RECURSIVE Slopes_EqualAsZero(_, _)
Slopes_EqualAsZero(pts, i) ==
    IF i > Len(pts) THEN <<>>
    ELSE LET p1 == pts[i - 1]
             p2 == pts[i]
         IN IF p2.distance # p1.distance
            THEN <<Frac(p2.z.v - p1.z.v, p2.distance - p1.distance)>>
                 \o Slopes_EqualAsZero(pts, i + 1)
            ELSE <<Zero>> \o Slopes_EqualAsZero(pts, i + 1)

\* The slope of each consecutive pair with different distances, as the
\* tangent (z2 - z1) / (d2 - d1); the code stores degrees(atan(tangent)),
\* which is strictly increasing in the tangent.
RECURSIVE Slopes(_, _)
Slopes(pts, i) ==
    IF i > Len(pts) THEN <<>>
    ELSE LET p1 == pts[i - 1]
             p2 == pts[i]
         IN IF p2.distance # p1.distance
            THEN <<Frac(p2.z.v - p1.z.v, p2.distance - p1.distance)>>
                 \o Slopes(pts, i + 1)
            ELSE Slopes(pts, i + 1)

\* np.mean / np.std of the angles: a term over the slopes, not evaluated
AngleMean(slopes) == [op |-> "mean_degrees_atan", of |-> slopes]
AngleStd(slopes) == [op |-> "std_degrees_atan", of |-> slopes]
AngleZero == [op |-> "zero", of |-> <<>>]

\* compute_terrain_analysis returning {} when no slope could be computed
ComputeTerrainAnalysis_NeedsSlope(pts) ==
    IF Len(pts) < 3 \/ Slopes(pts, 2) = <<>> THEN EmptyDict
    ELSE LET slopes == Slopes(pts, 2)
         IN [terrain_analysis |->
                [slopes |-> slopes,
                 mean_slope |-> AngleMean(slopes),
                 max_slope |-> FMax(slopes),
                 min_slope |-> FMin(slopes),
                 slope_std |-> AngleStd(slopes)]]

\* compute_terrain_analysis with the threshold off by one (<= 3)
ComputeTerrainAnalysis_OffByOne(pts) ==
    IF Len(pts) <= 3 THEN EmptyDict
    ELSE LET slopes == Slopes(pts, 2)
         IN [terrain_analysis |->
                [slopes |-> slopes,
                 mean_slope |-> IF slopes # <<>> THEN AngleMean(slopes) ELSE AngleZero,
                 max_slope |-> IF slopes # <<>> THEN FMax(slopes) ELSE Zero,
                 min_slope |-> IF slopes # <<>> THEN FMin(slopes) ELSE Zero,
                 slope_std |-> IF slopes # <<>> THEN AngleStd(slopes) ELSE AngleZero]]

\* compute_terrain_analysis
ComputeTerrainAnalysis(pts) ==
    IF Len(pts) < 3 THEN EmptyDict
    ELSE LET slopes == Slopes(pts, 2)
         IN [terrain_analysis |->
                [slopes |-> slopes,
                 mean_slope |-> IF slopes # <<>> THEN AngleMean(slopes) ELSE AngleZero,
                 max_slope |-> IF slopes # <<>> THEN FMax(slopes) ELSE Zero,
                 min_slope |-> IF slopes # <<>> THEN FMin(slopes) ELSE Zero,
                 slope_std |-> IF slopes # <<>> THEN AngleStd(slopes) ELSE AngleZero]]

\* the fit with its coefficients in ascending order of power, <<intercept,
\* slope>>
Polyfit_InterceptFirst(d, z) ==
    LET n == Len(d)
        sd == SeqSum(d)
        sz == SeqSum(z)
        sdd == SeqSum([i \in DOMAIN d |-> d[i] * d[i]])
        sdz == SeqSum([i \in DOMAIN d |-> d[i] * z[i]])
        den == n * sdd - sd * sd
    IN IF den # 0
       THEN <<Frac(sz * sdd - sd * sdz, den), Frac(n * sdz - sd * sz, den)>>
       ELSE <<Frac(sz, 2 * n), Frac(sz, 2 * n * d[1])>>

\* np.polyfit(distances, elevations, 1) as <<slope, intercept>>.  With all
\* distances equal the system has rank 1 and lstsq returns the minimum-norm
\* solution of the column-scaled system, whose trend is the mean elevation.
Polyfit(d, z) ==
    LET n == Len(d)
        sd == SeqSum(d)
        sz == SeqSum(z)
        sdd == SeqSum([i \in DOMAIN d |-> d[i] * d[i]])
        sdz == SeqSum([i \in DOMAIN d |-> d[i] * z[i]])
        den == n * sdd - sd * sd
    IN IF den # 0
       THEN <<Frac(n * sdz - sd * sz, den), Frac(sz * sdd - sd * sdz, den)>>
       ELSE <<Frac(sz, 2 * n * d[1]), Frac(sz, 2 * n)>>

\* polyfit scales each column of the Vandermonde matrix by its norm; with
\* all distances 0 that norm is 0, the matrix becomes NaN and lstsq raises
\* LinAlgError (SVD did not converge).
PolyfitRaises(d) == \A i \in DOMAIN d : d[i] = 0

RoughnessAnalysisRaises(pts) ==
    Len(pts) >= 5 /\ PolyfitRaises(Distances(pts))

\* compute_roughness_analysis
ComputeRoughnessAnalysis(pts) ==
    IF Len(pts) < 5 THEN EmptyDict
    ELSE LET distances == Distances(pts)
             elevations == Elevations(pts)
             coeffs == Polyfit(distances, elevations)
             deviations == [i \in DOMAIN pts |->
                              FSub(FInt(elevations[i]),
                                   FAdd(FMul(coeffs[1], FInt(distances[i])), coeffs[2]))]
         IN [roughness_analysis |->
                [roughness_index |-> FStdSquared(deviations),
                 trend_slope |-> coeffs[1],
                 trend_intercept |-> coeffs[2],
                 max_deviation |-> FMax([i \in DOMAIN pts |-> FAbs(deviations[i])]),
                 deviations |-> deviations]]

\* what update_statistics writes to stats_text: the three results it formats
StatsText(pts) ==
    [stats |-> ComputeBasicStatistics(pts),
     terrain_stats |-> ComputeTerrainAnalysis(pts),
     roughness_stats |-> ComputeRoughnessAnalysis(pts)]

\* ================================================================ renderer
\* dynamic_vpc_renderer.py.  Times are in ms, point sizes in tenths.  The QGIS
\* classes are taken with the signatures the code uses for them.
TimerInterval == 500
MinClasses == 2
MaxClasses == 20
DefaultClasses == 5
DefaultPointSize == 20

\* generate_color_palette: the five colours of the simplified viridis palette
ViridisColors ==
    << <<68, 1, 84>>, <<59, 82, 139>>, <<33, 144, 140>>, <<93, 201, 99>>,
       <<253, 231, 37>> >>

\* viridis_colors[::step]
Strided(step) ==
    [k \in 1..((Len(ViridisColors) + step - 1) \div step) |->
        ViridisColors[(k - 1) * step + 1]]

\* the colour of class i (from 0) of count > 5 classes: int() of the linear
\* interpolation between the two palette colours around i / (count - 1) * 4
InterpolatedColor(i, count) ==
    LET last == Len(ViridisColors) - 1
        lower_idx == (i * last) \div (count - 1)
        upper_idx == IF lower_idx + 1 < last THEN lower_idx + 1 ELSE last
        m == (i * last) % (count - 1)
        lo == ViridisColors[lower_idx + 1]
        up == ViridisColors[upper_idx + 1]
    IN IF lower_idx = upper_idx THEN lo
       ELSE [c \in 1..3 |-> (lo[c] * (count - 1 - m) + up[c] * m) \div (count - 1)]

\* generate_color_palette
GenerateColorPalette(count) ==
    IF count <= Len(ViridisColors)
    THEN LET strided == Strided(Len(ViridisColors) \div count)
         IN SubSeq(strided, 1, IF count < Len(strided) THEN count ELSE Len(strided))
    ELSE [i \in 1..count |-> InterpolatedColor(i - 1, count)]

\* np.linspace without its end point: n + 1 values short of hi
Linspace_NoEndpoint(lo, hi, n) ==
    [k \in 1..(n + 1) |-> FAdd(FInt(lo), Frac((k - 1) * (hi - lo), n + 1))]

\* np.linspace(lo, hi, n + 1), from index 1
Linspace(lo, hi, n) ==
    [k \in 1..(n + 1) |-> FAdd(FInt(lo), Frac((k - 1) * (hi - lo), n))]

NoRenderer == [type |-> "none"]

\* create_single_color_renderer
CreateSingleColorRenderer(size) == [type |-> "rgb", point_size |-> size]

\* create_graduated_renderer; NoRenderer is None
CreateGraduatedRenderer(stats, attribute, classes, size) ==
    IF stats.count = 0 THEN NoRenderer
    ELSE IF stats.min = stats.max THEN CreateSingleColorRenderer(size)
    ELSE LET intervals == Linspace(stats.min, stats.max, classes)
             colors == GenerateColorPalette(classes)
         IN [type |-> "classified",
             attribute |-> attribute,
             categories |-> [i \in 1..classes |->
                                [lower |-> intervals[i],
                                 upper |-> intervals[i + 1],
                                 color |-> colors[i]]],
             point_size |-> size]

\* the renderer update_renderer builds from the statistics
NewRenderer(stats, mode, attribute, classes, size) ==
    IF mode \in {"graduated", "classified"}
    THEN CreateGraduatedRenderer(stats, attribute, classes, size)
    ELSE CreateSingleColorRenderer(size)

\* schedule_update starting the timer only when none is pending
ScheduleUpdate_NoRestart(t) ==
    IF t.active THEN t ELSE [active |-> TRUE, remaining |-> TimerInterval]

\* schedule_update: timer.stop(), timer.start(500)
ScheduleUpdate(t) == [active |-> TRUE, remaining |-> TimerInterval]

\* timer.stop()
TimerStop(t) == [active |-> FALSE, remaining |-> 0]

\* the attributes of the point-cloud layer of the project
LayerAttributes == <<"Z", "Intensity">>

Modes == {"graduated", "classified", "rgb"}

EmptyCanvas == [count |-> 0, min |-> 0, max |-> 0]

\* get_visible_points_statistics over the extents the canvas can show
VisibleStats ==
    { EmptyCanvas }
    \cup UNION { { [count |-> 7, min |-> lo, max |-> hi] : hi \in lo..MaxAttrValue } :
                   lo \in 0..MaxAttrValue }

\* the statistics, class counts and point sizes of the debounce specification
TimingStats == { EmptyCanvas, [count |-> 7, min |-> 0, max |-> MaxAttrValue] }
TimingClasses == DefaultClasses..(DefaultClasses + MaxClassSteps)
PointSizes == DefaultPointSize..(DefaultPointSize + MaxSizeSteps)

VARIABLES
    current_vpc_layer,  \* self.current_vpc_layer: 0 for None, 1 for the layer
    layer_combo,        \* layer_combo.currentIndex(): 0 is the placeholder
    attribute_combo,    \* attribute_combo: its items and current text
    render_attribute,   \* self.render_attribute
    render_mode,        \* self.render_mode
    classes_count,      \* self.classes_count
    point_size,         \* self.point_size
    auto_button,        \* auto_button.isChecked()
    timer,              \* self.timer: active, and ms until it fires
    canvas,             \* statistics of the points in canvas.extent()
    layer_renderer,     \* the renderer the layer carries
    since_schedule,     \* ms since the latest schedule_update
    scheduled,          \* a schedule_update was made and not stopped
    rescheduled,        \* the latest schedule_update found the timer pending
    timer_updates,      \* update_renderer calls by the timer since then
    last_update         \* who made the latest update_renderer call

rvars == <<current_vpc_layer, layer_combo, attribute_combo, render_attribute,
           render_mode, classes_count, point_size, auto_button, timer, canvas,
           layer_renderer, since_schedule, scheduled, rescheduled,
           timer_updates, last_update>>

\* DynamicVPCRenderer.__init__ and setup_ui
RendererConstructed ==
    /\ current_vpc_layer = 0
    /\ layer_combo = 0
    /\ attribute_combo = [items |-> <<>>, text |-> ""]
    /\ render_attribute = "Z"
    /\ render_mode = "graduated"
    /\ classes_count = DefaultClasses
    /\ point_size = DefaultPointSize
    /\ auto_button = TRUE
    /\ timer = [active |-> FALSE, remaining |-> 0]
    /\ canvas \in VisibleStats
    /\ layer_renderer = [type |-> "default"]
    /\ since_schedule = 0
    /\ scheduled = FALSE
    /\ rescheduled = FALSE
    /\ timer_updates = 0
    /\ last_update = [by |-> "nobody"]

\* the handlers' common tail: if auto_button.isChecked() and enabled:
\* schedule_update()
ScheduleIfAuto(enabled) ==
    IF auto_button /\ enabled
    THEN /\ timer' = ScheduleUpdate(timer)
         /\ since_schedule' = 0
         /\ scheduled' = TRUE
         /\ rescheduled' = timer.active
         /\ timer_updates' = 0
    ELSE UNCHANGED <<timer, since_schedule, scheduled, rescheduled, timer_updates>>

\* on_layer_changed with entry sel of the layer combo selected; entry 1 runs
\* update_attribute_list, whose clear / addItem / setCurrentIndex make the
\* attribute combo emit currentTextChanged, the last time with 'Z'
OnLayerChanged(sel) ==
    /\ sel # layer_combo
    /\ layer_combo' = sel
    /\ IF sel = 0
       THEN /\ current_vpc_layer' = 0
            /\ UNCHANGED <<attribute_combo, render_attribute, timer,
                           since_schedule, scheduled, rescheduled, timer_updates>>
       ELSE /\ current_vpc_layer' = sel
            /\ attribute_combo' = [items |-> LayerAttributes, text |-> "Z"]
            /\ render_attribute' = "Z"
            /\ ScheduleIfAuto(TRUE)
    /\ UNCHANGED <<render_mode, classes_count, point_size, auto_button, canvas,
                   layer_renderer, last_update>>

\* on_attribute_changed
OnAttributeChanged(attribute_name) ==
    /\ \E i \in DOMAIN attribute_combo.items : attribute_combo.items[i] = attribute_name
    /\ attribute_name # attribute_combo.text
    /\ attribute_combo' = [attribute_combo EXCEPT !.text = attribute_name]
    /\ render_attribute' = attribute_name
    /\ ScheduleIfAuto(TRUE)
    /\ UNCHANGED <<current_vpc_layer, layer_combo, render_mode, classes_count,
                   point_size, auto_button, canvas, layer_renderer, last_update>>

\* on_mode_changed
OnModeChanged(mode) ==
    /\ mode # render_mode
    /\ render_mode' = mode
    /\ ScheduleIfAuto(TRUE)
    /\ UNCHANGED <<current_vpc_layer, layer_combo, attribute_combo,
                   render_attribute, classes_count, point_size, auto_button,
                   canvas, layer_renderer, last_update>>

\* on_classes_changed
OnClassesChanged(classes) ==
    /\ classes # classes_count
    /\ classes_count' = classes
    /\ ScheduleIfAuto(TRUE)
    /\ UNCHANGED <<current_vpc_layer, layer_combo, attribute_combo,
                   render_attribute, render_mode, point_size, auto_button,
                   canvas, layer_renderer, last_update>>

\* on_size_changed
OnSizeChanged(size) ==
    /\ size # point_size
    /\ point_size' = size
    /\ ScheduleIfAuto(TRUE)
    /\ UNCHANGED <<current_vpc_layer, layer_combo, attribute_combo,
                   render_attribute, render_mode, classes_count, auto_button,
                   canvas, layer_renderer, last_update>>

\* on_extent_changed, the canvas now showing points with statistics stats
OnExtentChanged(stats) ==
    /\ stats # canvas
    /\ canvas' = stats
    /\ ScheduleIfAuto(current_vpc_layer # 0)
    /\ UNCHANGED <<current_vpc_layer, layer_combo, attribute_combo,
                   render_attribute, render_mode, classes_count, point_size,
                   auto_button, layer_renderer, last_update>>

\* toggle_auto_mode without the timer.stop() of its else branch
ToggleAutoMode_NoStop ==
    /\ auto_button' = ~auto_button
    /\ IF auto_button'
       THEN /\ timer' = ScheduleUpdate(timer)
            /\ since_schedule' = 0
            /\ scheduled' = TRUE
            /\ rescheduled' = timer.active
            /\ timer_updates' = 0
       ELSE /\ scheduled' = FALSE
            /\ UNCHANGED <<timer, since_schedule, rescheduled, timer_updates>>
    /\ UNCHANGED <<current_vpc_layer, layer_combo, attribute_combo,
                   render_attribute, render_mode, classes_count, point_size,
                   canvas, layer_renderer, last_update>>

\* toggle_auto_mode: a click on the checkable auto button
ToggleAutoMode ==
    /\ auto_button' = ~auto_button
    /\ IF auto_button'
       THEN /\ timer' = ScheduleUpdate(timer)
            /\ since_schedule' = 0
            /\ scheduled' = TRUE
            /\ rescheduled' = timer.active
            /\ timer_updates' = 0
       ELSE /\ timer' = TimerStop(timer)
            /\ scheduled' = FALSE
            /\ UNCHANGED <<since_schedule, rescheduled, timer_updates>>
    /\ UNCHANGED <<current_vpc_layer, layer_combo, attribute_combo,
                   render_attribute, render_mode, classes_count, point_size,
                   canvas, layer_renderer, last_update>>

\* update_renderer, called by the timer or by the update button
UpdateRenderer(by) ==
    /\ last_update' = [by |-> by]
    /\ IF current_vpc_layer = 0 \/ render_attribute = ""
       THEN UNCHANGED layer_renderer
       ELSE LET new_renderer == NewRenderer(canvas, render_mode, render_attribute,
                                            classes_count, point_size)
            IN layer_renderer' = IF new_renderer # NoRenderer THEN new_renderer
                                 ELSE layer_renderer

\* a click on the update button
UpdateButtonClicked ==
    /\ UpdateRenderer("button")
    /\ UNCHANGED <<current_vpc_layer, layer_combo, attribute_combo,
                   render_attribute, render_mode, classes_count, point_size,
                   auto_button, timer, canvas, since_schedule, scheduled,
                   rescheduled, timer_updates>>

\* timer.timeout of the single-shot timer: update_renderer
TimerTimeout ==
    /\ timer.active
    /\ timer.remaining = 0
    /\ timer' = [active |-> FALSE, remaining |-> 0]
    /\ timer_updates' = IF timer_updates < 2 THEN timer_updates + 1 ELSE 2
    /\ UpdateRenderer("timer")
    /\ UNCHANGED <<current_vpc_layer, layer_combo, attribute_combo,
                   render_attribute, render_mode, classes_count, point_size,
                   auto_button, canvas, since_schedule, scheduled, rescheduled>>

\* TickMs of time pass, or what is left until the pending timer fires
Tick ==
    /\ timer.active
    /\ timer.remaining > 0
    /\ LET dt == IF timer.remaining < TickMs THEN timer.remaining ELSE TickMs
       IN /\ timer' = [timer EXCEPT !.remaining = @ - dt]
          /\ since_schedule' = since_schedule + dt
    /\ UNCHANGED <<current_vpc_layer, layer_combo, attribute_combo,
                   render_attribute, render_mode, classes_count, point_size,
                   auto_button, canvas, layer_renderer, scheduled, rescheduled,
                   timer_updates, last_update>>

\* ============================================================== calculator
\* _calculer.py.  The display text is a sequence of characters; a float is
\* the exact rational it stands for.
DigitChars == <<"0", "1", "2", "3", "4", "5", "6", "7", "8", "9">>

Erreur == <<"E", "r", "r", "e", "u", "r">>

IsDigit(c) == \E i \in DOMAIN DigitChars : DigitChars[i] = c

DigitValue(c) == (CHOOSE i \in DOMAIN DigitChars : DigitChars[i] = c) - 1

RECURSIVE Pow10(_)
Pow10(k) == IF k = 0 THEN 1 ELSE 10 * Pow10(k - 1)

\* the number a sequence of digits writes; 0 for the empty sequence
RECURSIVE DigitsValue(_)
DigitsValue(s) ==
    IF s = <<>> THEN 0
    ELSE 10 * DigitsValue(SubSeq(s, 1, Len(s) - 1)) + DigitValue(s[Len(s)])

\* text without its leading '-'
Unsigned(text) == IF text # <<>> /\ text[1] = "-" THEN Tail(text) ELSE text

\* float(text) does not raise ValueError: an optional '-', then digits with
\* at most one '.', at least one digit
ParsesAsFloat(text) ==
    LET u == Unsigned(text)
    IN /\ \A i \in DOMAIN u : IsDigit(u[i]) \/ u[i] = "."
       /\ Cardinality({ i \in DOMAIN u : u[i] = "." }) <= 1
       /\ \E i \in DOMAIN u : IsDigit(u[i])

\* float(text) for a text that parses
FloatOf(text) ==
    LET u == Unsigned(text)
        dots == { i \in DOMAIN u : u[i] = "." }
        dot == IF dots = {} THEN Len(u) + 1 ELSE CHOOSE i \in dots : TRUE
        whole == SubSeq(u, 1, dot - 1)
        decimals == SubSeq(u, dot + 1, Len(u))
        magnitude == Frac(DigitsValue(whole) * Pow10(Len(decimals))
                            + DigitsValue(decimals),
                          Pow10(Len(decimals)))
    IN IF text[1] = "-" THEN FSub(Zero, magnitude) ELSE magnitude

\* str(n) for an integer n >= 0
RECURSIVE StrNat(_)
StrNat(n) ==
    IF n < 10 THEN <<DigitChars[n + 1]>>
    ELSE Append(StrNat(n \div 10), DigitChars[(n % 10) + 1])

\* the digits of n, padded with zeros to k digits
RECURSIVE Padded(_, _)
Padded(n, k) ==
    IF k = 0 THEN <<>> ELSE Append(Padded(n \div 10, k - 1), DigitChars[(n % 10) + 1])

\* the number of decimals of a float with a finite decimal expansion
Decimals(v) == CHOOSE k \in 0..9 : Pow10(k) % v.d = 0 /\ \A j \in 0..(k - 1) : Pow10(j) % v.d # 0

\* the text calculate and plus_minus_clicked display for a float: str(int(v))
\* for a whole v, else str(v), the shortest decimal that reads back as v
FormatFloat(v) ==
    LET k == Decimals(v)
        scaled == (Abs(v.n) * Pow10(k)) \div v.d
        sign == IF v.n < 0 THEN <<"-">> ELSE <<>>
    IN IF v.d = 1 THEN sign \o StrNat(Abs(v.n))
       ELSE sign \o StrNat(scaled \div Pow10(k)) \o <<".">> \o Padded(scaled % Pow10(k), k)

\* the operator buttons; "*" writes the multiplication sign of the source
Operators == {"+", "-", "*", "/"}

\* the digit and '.' keys the model presses
NumberKeys == {"0", "1", "."}

\* the arithmetic of calculate with '*' bound tighter than the pending '+'
\* or '-': the operator applies to the right operand alone
ApplyOperator_RightOnly(op, left, right) ==
    CASE op = "+" -> FAdd(left, right)
      [] op = "-" -> right
      [] op = "*" -> FMul(left, right)
      [] op = "/" -> Frac(left.n * right.d, left.d * right.n)

\* the arithmetic of calculate: self.result op current_value
ApplyOperator(op, left, right) ==
    CASE op = "+" -> FAdd(left, right)
      [] op = "-" -> FSub(left, right)
      [] op = "*" -> FMul(left, right)
      [] op = "/" -> Frac(left.n * right.d, left.d * right.n)

\* calculate: the text it leaves in the display
Calculate(text, left, op) ==
    IF ~ParsesAsFloat(text) THEN Erreur
    ELSE IF op = "" THEN text
    ELSE IF op = "/" /\ FloatOf(text) = Zero THEN Erreur
    ELSE FormatFloat(ApplyOperator(op, left, FloatOf(text)))

\* a float the model follows: at most MaxDecimals decimals, magnitude at
\* most MaxValue
InBounds(v) ==
    /\ Pow10(MaxDecimals) % v.d = 0
    /\ Abs(v.n) <= MaxValue * v.d

\* the calculation of op on text stays within the floats the model follows
CalculationInBounds(text, left, op) ==
    (ParsesAsFloat(text) /\ op # "" /\ ~(op = "/" /\ FloatOf(text) = Zero))
        => InBounds(ApplyOperator(op, left, FloatOf(text)))

VARIABLES
    display,     \* self.display.text()
    result,      \* self.result
    operator,    \* self.operator
    new_number,  \* self.new_number
    last_calc    \* the caller of the latest calculate() that computed

cvars == <<display, result, operator, new_number, last_calc>>

\* Calculator.__init__ and initUI
CalculatorConstructed ==
    /\ display = <<"0">>
    /\ result = Zero
    /\ operator = ""
    /\ new_number = TRUE
    /\ last_calc = [by |-> "nobody"]

\* what a calculate() called by `by` leaves in last_calc
Calculated(by) ==
    IF ParsesAsFloat(display) /\ operator # ""
       /\ ~(operator = "/" /\ FloatOf(display) = Zero)
    THEN [by |-> by]
    ELSE last_calc

\* number_clicked, from a digit or '.' button or key
NumberClicked(number) ==
    /\ IF new_number
       THEN /\ display' = <<number>>
            /\ new_number' = FALSE
       ELSE /\ Len(display) < MaxDisplay \/ display = Erreur
            /\ display' = IF number = "." /\ (\E i \in DOMAIN display : display[i] = ".")
                          THEN display
                          ELSE IF display = <<"0">> /\ number # "."
                          THEN <<number>>
                          ELSE Append(display, number)
            /\ UNCHANGED new_number
    /\ UNCHANGED <<result, operator, last_calc>>

\* operator_clicked
OperatorClicked(op) ==
    /\ IF ~ParsesAsFloat(display)
       THEN /\ display' = Erreur
            /\ UNCHANGED <<result, operator, new_number, last_calc>>
       ELSE IF operator # "" /\ ~new_number
       THEN /\ CalculationInBounds(display, result, operator)
            /\ display' = Calculate(display, result, operator)
            /\ last_calc' = Calculated("operator")
            /\ IF ParsesAsFloat(display')
               THEN /\ result' = FloatOf(display')
                    /\ operator' = op
                    /\ new_number' = TRUE
               ELSE UNCHANGED <<result, operator, new_number>>
       ELSE /\ result' = FloatOf(display)
            /\ operator' = op
            /\ new_number' = TRUE
            /\ UNCHANGED <<display, last_calc>>

\* equals_clicked
EqualsClicked ==
    /\ CalculationInBounds(display, result, operator)
    /\ display' = Calculate(display, result, operator)
    /\ last_calc' = Calculated("equals")
    /\ operator' = ""
    /\ new_number' = TRUE
    /\ UNCHANGED result

\* clear_clicked
ClearClicked ==
    /\ display' = <<"0">>
    /\ result' = Zero
    /\ operator' = ""
    /\ new_number' = TRUE
    /\ UNCHANGED last_calc

\* plus_minus_clicked
PlusMinusClicked ==
    /\ display' = IF ParsesAsFloat(display)
                  THEN FormatFloat(FSub(Zero, FloatOf(display)))
                  ELSE display
    /\ UNCHANGED <<result, operator, new_number, last_calc>>

\* keyPressEvent with Key_Backspace
BackspacePressed ==
    /\ IF Len(display) > 1
       THEN /\ display' = SubSeq(display, 1, Len(display) - 1)
            /\ UNCHANGED new_number
       ELSE /\ display' = <<"0">>
            /\ new_number' = TRUE
    /\ UNCHANGED <<result, operator, last_calc>>

\* ================================================================ analyzer
\* ------------------------------------------------------------------ state
VARIABLES
    project,            \* the point-cloud layers of QgsProject, by combo index
    vpc_layer,          \* self.vpc_layer: index into project, 0 for None
    profile_line,       \* self.profile_line: NoLine or <<start, end>>
    profile_points,     \* self.profile_points
    buffer_distance,    \* self.buffer_distance
    extract_points_btn, \* extract_points_btn.isEnabled()
    analyze_btn,        \* analyze_btn.isEnabled()
    progress_bar,       \* progress_bar: visibility and value
    progress_reports,   \* the setValue calls of the latest extraction
    stats_text,         \* stats_text: <<>> or <<what update_statistics wrote>>
    analysis_completed, \* <<>> or <<payload of the latest emit>>
    message,            \* the latest QgsMessageLog.logMessage
    extraction,         \* line, buffer and outcome of the latest extraction
    terrain_input,      \* <<>> or <<points of the latest compute_terrain_analysis>>
    analyzed            \* <<>> or <<profile_points at the latest analyze_points call>>

vars == <<project, vpc_layer, profile_line, profile_points, buffer_distance,
          extract_points_btn, analyze_btn, progress_bar, progress_reports,
          stats_text, analysis_completed, message, extraction, terrain_input,
          analyzed>>

\* every variable of the three programs
allvars == <<vars, rvars, cvars>>

\* the renderer and the calculator as constructed, with nothing on the canvas
OthersConstructed ==
    /\ RendererConstructed
    /\ canvas = EmptyCanvas
    /\ CalculatorConstructed

DefaultBuffer == 5

Message(text, n) == [text |-> text, n |-> n]

NoExtraction == [ran |-> FALSE, line |-> NoLine, buffer |-> 0, records |-> <<>>,
                 raised |-> FALSE]

\* __init__ and setup_ui: every field but the content of the project
Constructed ==
    /\ vpc_layer = 0
    /\ profile_line = NoLine
    /\ profile_points = <<>>
    /\ buffer_distance = DefaultBuffer
    /\ extract_points_btn = FALSE
    /\ analyze_btn = FALSE
    /\ progress_bar = [visible |-> FALSE, value |-> 0]
    /\ progress_reports = <<>>
    /\ stats_text = <<>>
    /\ analysis_completed = <<>>
    /\ message = Message("", 0)
    /\ extraction = NoExtraction
    /\ terrain_input = <<>>
    /\ analyzed = <<>>

Init ==
    /\ project \in { <<l>> : l \in Layers }
    /\ Constructed
    /\ OthersConstructed

\* the analyzer opened on a project whose layer holds well-formed records
InitStats ==
    /\ project \in { <<l>> : l \in StatLayers }
    /\ Constructed
    /\ OthersConstructed

\* get_profile_line: the horizontal line through the centre of the extent
GetProfileLine(layer) ==
    <<[x |-> layer.extent.xMin, y |-> layer.extent.cy],
      [x |-> layer.extent.xMax, y |-> layer.extent.cy]>>

\* create_elevation_profile with entry sel of the layer combo selected
\* (entry 0 is the placeholder without layer id)
CreateElevationProfile(sel) ==
    IF sel = 0
    THEN /\ message' = Message("Veuillez selectionner une couche VPC", 0)
         /\ UNCHANGED <<project, vpc_layer, profile_line, profile_points,
                        buffer_distance, extract_points_btn, analyze_btn,
                        progress_bar, progress_reports, stats_text,
                        analysis_completed, extraction, terrain_input,
                        analyzed>>
    ELSE /\ vpc_layer' = sel
         /\ profile_line' = GetProfileLine(project[sel])
         /\ extract_points_btn' = TRUE
         /\ message' = Message("Profil d'elevation cree avec succes", 0)
         /\ UNCHANGED <<project, profile_points, buffer_distance, analyze_btn,
                        progress_bar, progress_reports, stats_text,
                        analysis_completed, extraction, terrain_input,
                        analyzed>>

\* extract_profile_points without the reset of profile_points: the loop
\* appends to the points of the run before
ExtractProfilePoints_Accumulate(b) ==
    /\ extract_points_btn
    /\ vpc_layer # 0
    /\ profile_line # NoLine
    /\ LET records == project[vpc_layer].records
           res == ExtractLoop(records, profile_line, b, 1, profile_points, <<>>)
       IN /\ buffer_distance' = b
          /\ profile_points' = res.points
          /\ progress_reports' = res.progress
          /\ progress_bar' =
                [visible |-> FALSE,
                 value |-> IF res.progress = <<>> THEN progress_bar.value
                           ELSE res.progress[Len(res.progress)]]
          /\ extraction' = [ran |-> TRUE, line |-> profile_line, buffer |-> b,
                            records |-> records, raised |-> res.raised]
          /\ IF res.raised
             THEN /\ message' = Message("Erreur lors de l'extraction", 0)
                  /\ UNCHANGED analyze_btn
             ELSE IF res.points # <<>>
             THEN /\ analyze_btn' = TRUE
                  /\ message' = Message("points extraits du profil", Len(res.points))
             ELSE /\ message' = Message("Aucun point trouve dans la zone de profil", 0)
                  /\ UNCHANGED analyze_btn
    /\ UNCHANGED <<project, vpc_layer, profile_line, extract_points_btn,
                   stats_text, analysis_completed, terrain_input, analyzed>>

\* extract_profile_points with the buffer spin box at b
ExtractProfilePoints(b) ==
    /\ extract_points_btn
    /\ vpc_layer # 0
    /\ profile_line # NoLine
    /\ LET records == project[vpc_layer].records
           res == ExtractLoop(records, profile_line, b, 1, <<>>, <<>>)
       IN /\ buffer_distance' = b
          /\ profile_points' = res.points
          /\ progress_reports' = res.progress
          /\ progress_bar' =
                [visible |-> FALSE,
                 value |-> IF res.progress = <<>> THEN progress_bar.value
                           ELSE res.progress[Len(res.progress)]]
          /\ extraction' = [ran |-> TRUE, line |-> profile_line, buffer |-> b,
                            records |-> records, raised |-> res.raised]
          /\ IF res.raised
             THEN /\ message' = Message("Erreur lors de l'extraction", 0)
                  /\ UNCHANGED analyze_btn
             ELSE IF res.points # <<>>
             THEN /\ analyze_btn' = TRUE
                  /\ message' = Message("points extraits du profil", Len(res.points))
             ELSE /\ message' = Message("Aucun point trouve dans la zone de profil", 0)
                  /\ UNCHANGED analyze_btn
    /\ UNCHANGED <<project, vpc_layer, profile_line, extract_points_btn,
                   stats_text, analysis_completed, terrain_input, analyzed>>

\* analyze_points
AnalyzePoints ==
    /\ analyze_btn
    /\ analyzed' = <<profile_points>>
    /\ IF profile_points = <<>>
       THEN UNCHANGED <<project, vpc_layer, profile_line, profile_points,
                        buffer_distance, extract_points_btn, analyze_btn,
                        progress_bar, progress_reports, stats_text,
                        analysis_completed, message, extraction, terrain_input>>
       ELSE LET sorted == SortByDistance(profile_points) IN
            /\ profile_points' = sorted
            /\ IF BasicStatisticsRaises(sorted)
               THEN /\ message' = Message("Erreur lors de l'analyse", 0)
                    /\ UNCHANGED <<stats_text, analysis_completed, terrain_input>>
               ELSE IF RoughnessAnalysisRaises(sorted)
               THEN /\ message' = Message("Erreur lors de l'analyse", 0)
                    /\ terrain_input' = <<sorted>>
                    /\ UNCHANGED <<stats_text, analysis_completed>>
               ELSE /\ terrain_input' = <<sorted>>
                    /\ stats_text' = <<StatsText(sorted)>>
                    /\ analysis_completed' =
                          <<ComputeBasicStatistics(sorted)
                            @@ ComputeTerrainAnalysis(sorted)
                            @@ ComputeRoughnessAnalysis(sorted)>>
                    /\ message' = Message("Analyse des points terminee", 0)
            /\ UNCHANGED <<project, vpc_layer, profile_line, buffer_distance,
                           extract_points_btn, analyze_btn, progress_bar,
                           progress_reports, extraction>>

\* update_statistics from its own button (the button is always enabled)
UpdateStatistics ==
    IF profile_points = <<>> \/ BasicStatisticsRaises(profile_points)
    THEN UNCHANGED vars
    ELSE /\ terrain_input' = <<profile_points>>
         /\ stats_text' = IF RoughnessAnalysisRaises(profile_points)
                          THEN stats_text
                          ELSE <<StatsText(profile_points)>>
         /\ UNCHANGED <<project, vpc_layer, profile_line, profile_points,
                        buffer_distance, extract_points_btn, analyze_btn,
                        progress_bar, progress_reports, analysis_completed,
                        message, extraction, analyzed>>

Next ==
    \/ (\E sel \in 0..Len(project) : CreateElevationProfile(sel)) /\ UNCHANGED <<rvars, cvars>>
    \/ (\E b \in Buffers : ExtractProfilePoints(b)) /\ UNCHANGED <<rvars, cvars>>
    \/ AnalyzePoints /\ UNCHANGED <<rvars, cvars>>
    \/ UpdateStatistics /\ UNCHANGED <<rvars, cvars>>

Spec == Init /\ [][Next]_allvars

\* the same handlers with the layer selected and the buffer spin box left at
\* its default value
NextStats ==
    \/ CreateElevationProfile(1) /\ UNCHANGED <<rvars, cvars>>
    \/ ExtractProfilePoints(DefaultBuffer) /\ UNCHANGED <<rvars, cvars>>
    \/ AnalyzePoints /\ UNCHANGED <<rvars, cvars>>
    \/ UpdateStatistics /\ UNCHANGED <<rvars, cvars>>

SpecStats == InitStats /\ [][NextStats]_allvars

\* ------------------------------------------------- renderer specifications
\* the renderer started in a project with one point-cloud layer; the analyzer
\* and the calculator stay as constructed
InitRenderer ==
    /\ project = <<>>
    /\ Constructed
    /\ RendererConstructed
    /\ canvas \in TimingStats
    /\ CalculatorConstructed

NextRenderer ==
    \/ (\E sel \in 0..1 : OnLayerChanged(sel)) /\ UNCHANGED <<vars, cvars>>
    \/ (\E a \in { LayerAttributes[i] : i \in DOMAIN LayerAttributes } :
            OnAttributeChanged(a)) /\ UNCHANGED <<vars, cvars>>
    \/ (\E m \in Modes : OnModeChanged(m)) /\ UNCHANGED <<vars, cvars>>
    \/ (\E n \in TimingClasses : OnClassesChanged(n)) /\ UNCHANGED <<vars, cvars>>
    \/ (\E s \in PointSizes : OnSizeChanged(s)) /\ UNCHANGED <<vars, cvars>>
    \/ (\E st \in TimingStats : OnExtentChanged(st)) /\ UNCHANGED <<vars, cvars>>
    \/ ToggleAutoMode /\ UNCHANGED <<vars, cvars>>
    \/ UpdateButtonClicked /\ UNCHANGED <<vars, cvars>>
    \/ TimerTimeout /\ UNCHANGED <<vars, cvars>>
    \/ Tick /\ UNCHANGED <<vars, cvars>>

SpecRenderer == InitRenderer /\ [][NextRenderer]_allvars

\* the renderer driven by the update button over every class count and every
\* visible statistics
InitPalette ==
    /\ project = <<>>
    /\ Constructed
    /\ RendererConstructed
    /\ CalculatorConstructed

NextPalette ==
    \/ OnLayerChanged(1) /\ UNCHANGED <<vars, cvars>>
    \/ (\E n \in MinClasses..MaxClasses : OnClassesChanged(n)) /\ UNCHANGED <<vars, cvars>>
    \/ (\E st \in VisibleStats : OnExtentChanged(st)) /\ UNCHANGED <<vars, cvars>>
    \/ UpdateButtonClicked /\ UNCHANGED <<vars, cvars>>

SpecPalette == InitPalette /\ [][NextPalette]_allvars

\* ----------------------------------------------- calculator specification
InitCalculator ==
    /\ project = <<>>
    /\ Constructed
    /\ OthersConstructed

NextCalculator ==
    \/ (\E k \in NumberKeys : NumberClicked(k)) /\ UNCHANGED <<vars, rvars>>
    \/ (\E op \in Operators : OperatorClicked(op)) /\ UNCHANGED <<vars, rvars>>
    \/ EqualsClicked /\ UNCHANGED <<vars, rvars>>
    \/ ClearClicked /\ UNCHANGED <<vars, rvars>>
    \/ PlusMinusClicked /\ UNCHANGED <<vars, rvars>>
    \/ BackspacePressed /\ UNCHANGED <<vars, rvars>>

SpecCalculator == InitCalculator /\ [][NextCalculator]_allvars

\* ----------------------------------------------------------------- claims
Position(pt) == [x |-> pt.x, y |-> pt.y]

PositionOf(r) == [x |-> r.X.v, y |-> r.Y.v]

\* a record with numeric X, Y and Z
WellFormed(r) == r.X.t = "num" /\ r.Y.t = "num" /\ r.Z.t = "num"

NonDegenerate(line) == line # NoLine /\ LineLength(line) > 0

\* C1: the distance of every extracted point is the arc length, from the
\* start of the line, of the point on the line nearest to its position.
C1_DistanceIsArcLengthOfNearestPoint ==
    \A i \in DOMAIN profile_points :
        profile_points[i].distance
            = LineLocatePoint(extraction.line, Position(profile_points[i]))

\* C2: every point held in profile_points lies within the buffer distance of
\* the line of the extraction that created it, and an extraction all of
\* whose records lie outside the buffer ends without error and without points.
C2_PointsWithinBuffer ==
    /\ \A i \in DOMAIN profile_points :
          SqDistToLine(extraction.line, Position(profile_points[i]))
              <= buffer_distance * buffer_distance
    /\ ( /\ extraction.ran
         /\ \A j \in DOMAIN extraction.records :
               /\ WellFormed(extraction.records[j])
               /\ SqDistToLine(extraction.line, PositionOf(extraction.records[j]))
                     > extraction.buffer * extraction.buffer )
       => (~extraction.raised /\ profile_points = <<>>)

\* an extraction that kept a record and dropped another one that lies
\* outside the buffer
C2_Witness ==
    /\ extraction.ran /\ ~extraction.raised
    /\ profile_points # <<>>
    /\ \E j \in DOMAIN extraction.records :
          /\ WellFormed(extraction.records[j])
          /\ SqDistToLine(extraction.line, PositionOf(extraction.records[j]))
                > extraction.buffer * extraction.buffer

\* C3: on a non-degenerate line every stored distance is between 0 and the
\* length of the line.
C3_DistanceWithinLine ==
    NonDegenerate(extraction.line) =>
        \A i \in DOMAIN profile_points :
            /\ 0 <= profile_points[i].distance
            /\ profile_points[i].distance <= LineLength(extraction.line)

\* points at both ends of a non-degenerate line, one of them accepted from
\* beyond the start vertex
C3_Witness ==
    /\ NonDegenerate(extraction.line)
    /\ \E i \in DOMAIN profile_points :
          profile_points[i].distance = LineLength(extraction.line)
    /\ \E i \in DOMAIN profile_points :
          /\ profile_points[i].x < extraction.line[1].x
          /\ profile_points[i].distance = 0

\* C4: every terrain analysis over at least 3 points ran on points sorted by
\* distance.
C4_AnalysisOnSortedPoints ==
    (terrain_input # <<>> /\ Len(terrain_input[1]) >= 3)
        => IsSortedByDistance(terrain_input[1])

\* C5: an extraction over a zero-length line ends in an error and extracts no
\* point.
C5_DegenerateLineRejected ==
    (extraction.ran /\ LineLength(extraction.line) = 0)
        => (extraction.raised /\ profile_points = <<>>)

\* C6: a failed extraction leaves no point in profile_points.
C6_NoPartialResult ==
    (extraction.ran /\ extraction.raised) => profile_points = <<>>

\* C7: on a non-degenerate line, profile_points holds one point for every
\* well-formed record inside the buffer, whatever malformed records the
\* layer holds, and none for a malformed record.
C7_MalformedRecordsSkipped ==
    (extraction.ran /\ NonDegenerate(extraction.line)) =>
        Len(profile_points)
            = Cardinality({ j \in DOMAIN extraction.records :
                              /\ WellFormed(extraction.records[j])
                              /\ Contains(extraction.line, extraction.buffer,
                                          PositionOf(extraction.records[j])) })

\* C8: an extraction over a source without records ends in an error, not in
\* the outcome of an extraction whose records all lie outside the buffer.
C8_EmptyInputIsAnError ==
    (extraction.ran /\ extraction.records = <<>>)
        => /\ extraction.raised
           /\ message # Message("Aucun point trouve dans la zone de profil", 0)

\* C9: an analysis requested on an empty profile_points after an extraction
\* that ran without error publishes the empty result: point_count = 0 and no
\* statistics group.
C9_EmptyResultPublished ==
    ( /\ analyzed = <<profile_points>>
      /\ profile_points = <<>>
      /\ extraction.ran /\ ~extraction.raised /\ extraction.records # <<>> )
        => analysis_completed = <<[point_count |-> 0]>>

Published ==
    /\ analysis_completed # <<>>
    /\ message = Message("Analyse des points terminee", 0)

Result == analysis_completed[1]

\* the points that carry an intensity
WithIntensity == { i \in DOMAIN profile_points : profile_points[i].intensity.t = "num" }

RECURSIVE IntensitySum(_)
IntensitySum(S) ==
    IF S = {} THEN 0
    ELSE LET i == CHOOSE j \in S : TRUE
         IN profile_points[i].intensity.v + IntensitySum(S \ {i})

\* C11: the intensity group of a published result is present exactly when a
\* point carries an intensity, and its min, max and mean are those of the
\* intensities that are present.
C11_IntensityOverPresentOnly ==
    Published =>
        /\ ("intensity_stats" \in DOMAIN Result) <=> (WithIntensity # {})
        /\ WithIntensity # {} =>
              LET g == Result.intensity_stats IN
              /\ g.mean.n * Cardinality(WithIntensity) = IntensitySum(WithIntensity) * g.mean.d
              /\ \E i \in WithIntensity : profile_points[i].intensity.v = g.min
              /\ \E i \in WithIntensity : profile_points[i].intensity.v = g.max
              /\ \A i \in WithIntensity :
                    /\ g.min <= profile_points[i].intensity.v
                    /\ profile_points[i].intensity.v <= g.max

\* the result over three points with intensities 50, 60 and none: mean 55
C11_Witness ==
    /\ Published
    /\ Len(profile_points) = 3
    /\ Cardinality(WithIntensity) = 2
    /\ Result.intensity_stats.min = 50
    /\ Result.intensity_stats.max = 60
    /\ Result.intensity_stats.mean = [n |-> 55, d |-> 1]

\* C12: the intensity group of a published result has the fields of the
\* elevation group: min, max, mean, std and range.
C12_IntensityShape ==
    (Published /\ "intensity_stats" \in DOMAIN Result) =>
        /\ DOMAIN Result.intensity_stats = DOMAIN Result.elevation_stats
        /\ DOMAIN Result.intensity_stats = {"min", "max", "mean", "std", "range"}

\* C13: every extracted point mirrors a record of the layer at its position:
\* intensity and classification carry the record's value or are None when
\* the record lacks them, and the elevation is the record's Z, never a value
\* standing in for a missing Z.
C13_FieldsMirrorRecord ==
    \A i \in DOMAIN profile_points :
        \E j \in DOMAIN extraction.records :
            LET p == profile_points[i]
                r == extraction.records[j]
            IN /\ r.X = Num(p.x)
               /\ r.Y = Num(p.y)
               /\ p.intensity = (IF r.Intensity = Missing THEN PyNone ELSE r.Intensity)
               /\ p.classification
                     = (IF r.Classification = Missing THEN PyNone ELSE r.Classification)
               /\ r.Z # Missing
               /\ p.z = r.Z

\* the consecutive pairs of pts whose distances differ, by their second index
SlopedPairs(pts) == { i \in 2..Len(pts) : pts[i].distance # pts[i - 1].distance }

\* slopes holds, in order, the tangent of every pair of SlopedPairs(pts)
SlopesOfPairs(slopes, pts) ==
    /\ Len(slopes) = Cardinality(SlopedPairs(pts))
    /\ \A i \in SlopedPairs(pts) :
          LET k == Cardinality({ j \in SlopedPairs(pts) : j <= i })
          IN slopes[k].n * (pts[i].distance - pts[i - 1].distance)
                = (pts[i].z.v - pts[i - 1].z.v) * slopes[k].d

AtDistance(pts, d) == SelectSeq(pts, LAMBDA p : p.distance = d)

\* after holds the points of before in ascending distance, the points of one
\* distance in the order they had
StablySorted(before, after) ==
    /\ Len(after) = Len(before)
    /\ IsSortedByDistance(after)
    /\ \A d \in 0..LineLen : AtDistance(after, d) = AtDistance(before, d)

\* C15 as stated: analyze_points and the compute functions (run by
\* update_statistics) leave profile_points as it was, same points, same order.
C15_InputNotMutated ==
    [][(AnalyzePoints \/ UpdateStatistics) => profile_points' = profile_points]_vars

\* C15: analyze_points leaves in profile_points the points it found, reordered
\* only by its stable ascending sort on distance, and the compute functions
\* (run by update_statistics) leave profile_points as it was.
C15_InputOnlySorted ==
    [][ /\ AnalyzePoints => StablySorted(profile_points, profile_points')
        /\ UpdateStatistics => profile_points' = profile_points ]_vars

\* an analysis has published its result after reordering its input, which
\* held two different points at one distance
C15_Witness ==
    /\ Published
    /\ analyzed # <<>>
    /\ ~IsSortedByDistance(analyzed[1])
    /\ analyzed[1] # profile_points
    /\ \E i, j \in DOMAIN profile_points :
          /\ i # j
          /\ profile_points[i].distance = profile_points[j].distance
          /\ profile_points[i] # profile_points[j]

\* C16: the progress values reported during one extraction stay within
\* 0..100 and never decrease.
C16_ProgressNeverDecreases ==
    /\ \A i \in DOMAIN progress_reports :
          0 <= progress_reports[i] /\ progress_reports[i] <= 100
    /\ \A i \in 1..(Len(progress_reports) - 1) :
          progress_reports[i] <= progress_reports[i + 1]

\* a and b hold the same points, each as often in one as in the other
SamePoints(a, b) ==
    /\ Len(a) = Len(b)
    /\ \A i \in DOMAIN a :
          Cardinality({ j \in DOMAIN a : a[j] = a[i] })
             = Cardinality({ j \in DOMAIN b : b[j] = a[i] })

\* C17: an extraction that runs again on the layer content, line and buffer
\* of the extraction before it leaves the points that one found: same number,
\* same points and distances, none of them accumulated.
C17_ExtractionIdempotent ==
    [][ ( /\ \E b \in Buffers \cup {DefaultBuffer} : ExtractProfilePoints(b)
          /\ extraction.ran
          /\ extraction' = extraction )
        => SamePoints(profile_points, profile_points') ]_vars

\* an extraction has run again after the analysis of the extraction before
\* it, and shows as many points as that analysis counted
C17_Witness ==
    /\ extraction.ran
    /\ analysis_completed # <<>>
    /\ Len(profile_points) >= 2
    /\ message = Message("points extraits du profil", Len(profile_points))
    /\ analysis_completed[1].point_count = Len(profile_points)
    /\ ~IsSortedByDistance(profile_points)

\* C18: analyze_points on profile_points already in ascending distance leaves
\* their order as it is, ties included, and when the analysis before it
\* published terrain statistics over these points it publishes the same ones.
C18_ResortIsNoOp ==
    [][ (AnalyzePoints /\ IsSortedByDistance(profile_points)) =>
           /\ profile_points' = profile_points
           /\ (Published /\ "terrain_analysis" \in DOMAIN Result) =>
                 /\ message' = message
                 /\ analysis_completed' # <<>>
                 /\ "terrain_analysis" \in DOMAIN analysis_completed'[1]
                 /\ analysis_completed'[1].terrain_analysis = Result.terrain_analysis
      ]_vars

\* the extraction found its points out of order, and the latest analysis ran
\* on them already sorted, two different points at one distance among them,
\* and published a slope
C18_Witness ==
    /\ Published
    /\ analyzed = <<profile_points>>
    /\ \E i \in 1..(Len(progress_reports) - 1) :
          progress_reports[i] > progress_reports[i + 1]
    /\ \E i \in 1..(Len(profile_points) - 1) :
          /\ profile_points[i].distance = profile_points[i + 1].distance
          /\ profile_points[i] # profile_points[i + 1]
    /\ "terrain_analysis" \in DOMAIN Result
    /\ Result.terrain_analysis.slopes # <<>>

\* every point lies on the line elevation = 2 * distance + 5
OnSyntheticLine(pts) ==
    \A i \in DOMAIN pts : pts[i].z.v = 2 * pts[i].distance + 5

TwoDistances(pts) == \E i, j \in DOMAIN pts : pts[i].distance # pts[j].distance

\* C19: the published roughness group over at least 5 points holds one
\* deviation per point, in the ascending-distance order of the points, each
\* the elevation of its point minus the trend at its distance; when the points
\* lie on elevation = 2 * distance + 5 at two or more distances, the trend has
\* slope 2 and intercept 5, and roughness_index, max_deviation and every
\* deviation are 0.
C19_RoughnessOfSyntheticLine ==
    (Published /\ Len(profile_points) >= 5) =>
        LET g == Result.roughness_analysis IN
        /\ IsSortedByDistance(profile_points)
        /\ DOMAIN g.deviations = DOMAIN profile_points
        /\ \A i \in DOMAIN profile_points :
              FAdd(g.deviations[i],
                   FAdd(FMul(g.trend_slope, FInt(profile_points[i].distance)),
                        g.trend_intercept))
                 = FInt(profile_points[i].z.v)
        /\ (OnSyntheticLine(profile_points) /\ TwoDistances(profile_points)) =>
              /\ g.trend_slope = [n |-> 2, d |-> 1]
              /\ g.trend_intercept = [n |-> 5, d |-> 1]
              /\ g.roughness_index = [n |-> 0, d |-> 1]
              /\ g.max_deviation = [n |-> 0, d |-> 1]
              /\ \A i \in DOMAIN g.deviations : g.deviations[i] = [n |-> 0, d |-> 1]

\* a published result over 5 points on the synthetic line, at both ends of the
\* profile line
C19_Witness ==
    /\ Published
    /\ Len(profile_points) = 5
    /\ OnSyntheticLine(profile_points)
    /\ TwoDistances(profile_points)
    /\ Result.roughness_analysis.trend_slope = [n |-> 2, d |-> 1]
    /\ Len(Result.roughness_analysis.deviations) = 5

RECURSIVE ElevationSum(_)
ElevationSum(S) ==
    IF S = {} THEN 0
    ELSE LET i == CHOOSE j \in S : TRUE
         IN profile_points[i].z.v + ElevationSum(S \ {i})

\* C20: in a published result point_count is the number of points, and the
\* elevation group is taken over all of them: min and max are the least and
\* the greatest elevation, mean is their sum over their number and lies
\* between min and max, and range is max - min.
C20_ElevationGroup ==
    Published =>
        LET g == Result.elevation_stats
            n == Len(profile_points)
        IN /\ Result.point_count = n
           /\ \E i \in DOMAIN profile_points : profile_points[i].z.v = g.min
           /\ \E i \in DOMAIN profile_points : profile_points[i].z.v = g.max
           /\ \A i \in DOMAIN profile_points :
                 g.min <= profile_points[i].z.v /\ profile_points[i].z.v <= g.max
           /\ g.mean.d > 0
           /\ g.mean.n * n = ElevationSum(DOMAIN profile_points) * g.mean.d
           /\ g.min * g.mean.d <= g.mean.n
           /\ g.mean.n <= g.max * g.mean.d
           /\ g.range = g.max - g.min

\* the published result over the elevations 5, 8 and 6: min 5, max 8, mean
\* 19/3, range 3
C20_Witness ==
    /\ Published
    /\ Len(profile_points) = 3
    /\ { profile_points[i].z.v : i \in DOMAIN profile_points } = {5, 8, 6}
    /\ Result.point_count = 3
    /\ Result.elevation_stats.min = 5
    /\ Result.elevation_stats.max = 8
    /\ Result.elevation_stats.mean = [n |-> 19, d |-> 3]
    /\ Result.elevation_stats.range = 3

\* C23: the extract button is enabled only while a profile line is set, and
\* the analyze button only while profile_points holds a point.
C23_StageGating ==
    /\ extract_points_btn => profile_line # NoLine
    /\ analyze_btn => profile_points # <<>>

\* at least 3 points, all at one distance
FlatDistances(pts) ==
    /\ Len(pts) >= 3
    /\ \A i \in 2..Len(pts) : pts[i].distance = pts[i - 1].distance

\* the terrain group without a slope: empty slopes, the four figures 0
NoSlopeGroup(g) ==
    /\ g.slopes = <<>>
    /\ g.mean_slope = [op |-> "zero", of |-> <<>>]
    /\ g.max_slope = [n |-> 0, d |-> 1]
    /\ g.min_slope = [n |-> 0, d |-> 1]
    /\ g.slope_std = [op |-> "zero", of |-> <<>>]

RendererIsCurrent(r) ==
    /\ r.type \in {"rgb", "classified"}
    /\ r.point_size = point_size
    /\ r.type = "classified" =>
          /\ r.attribute = render_attribute
          /\ Len(r.categories) = classes_count

\* C21: the timer fires TimerInterval after the latest schedule_update and
\* not before, runs update_renderer once with the parameter values of that
\* moment and stays stopped; while it is pending no timer update has run
\* since the latest schedule_update, and once it has fired exactly one has.
C21_DebounceOneUpdate ==
    [][ /\ TimerTimeout =>
              /\ since_schedule = TimerInterval
              /\ ~timer'.active
              /\ timer_updates' = 1
              /\ last_update'.by = "timer"
              /\ (current_vpc_layer # 0 /\ canvas.count > 0) =>
                    RendererIsCurrent(layer_renderer')
        /\ timer'.active => timer_updates' = 0
        /\ (scheduled' /\ ~timer'.active) => timer_updates' = 1
      ]_rvars

\* the latest schedule_update restarted a pending timer, and the one update
\* of the burst has run, TimerInterval later, with a class count and a point
\* size that were changed
C21_Witness ==
    /\ rescheduled
    /\ ~timer.active
    /\ timer_updates = 1
    /\ since_schedule = TimerInterval
    /\ last_update.by = "timer"
    /\ layer_renderer.type = "classified"
    /\ classes_count # DefaultClasses
    /\ point_size # DefaultPointSize
    /\ Len(layer_renderer.categories) = classes_count
    /\ layer_renderer.point_size = point_size

\* C22: while automatic mode is off no timer is pending, so no update comes
\* from the timer; the handlers record their values all the same, and
\* update_renderer runs from the update button alone.
C22_NoTimerWhileAutoOff ==
    [][ /\ ~auto_button' => ~timer'.active
        /\ (~auto_button /\ ~auto_button') =>
              /\ timer_updates' = timer_updates
              /\ last_update' # last_update => last_update'.by = "button"
              /\ ~TimerTimeout
        /\ \A n \in TimingClasses : OnClassesChanged(n) => classes_count' = n
        /\ \A s \in PointSizes : OnSizeChanged(s) => point_size' = s
        /\ \A m \in Modes : OnModeChanged(m) => render_mode' = m
        /\ \A i \in DOMAIN LayerAttributes :
              OnAttributeChanged(LayerAttributes[i]) =>
                  render_attribute' = LayerAttributes[i]
      ]_rvars

\* automatic mode was switched off over a pending update; the class count and
\* the point size were changed since, the layer still carries the renderer of
\* the update button with the values before the change
C22_Witness ==
    /\ ~auto_button
    /\ ~scheduled
    /\ ~timer.active
    /\ since_schedule < TimerInterval
    /\ timer_updates = 0
    /\ last_update.by = "button"
    /\ layer_renderer.type = "classified"
    /\ Len(layer_renderer.categories) # classes_count
    /\ layer_renderer.point_size # point_size

\* the categories split [lo, hi] into Len(cats) intervals of one width, each
\* starting where the one before it ends
EqualIntervals(cats, lo, hi) ==
    /\ cats[1].lower = [n |-> lo, d |-> 1]
    /\ cats[Len(cats)].upper = [n |-> hi, d |-> 1]
    /\ \A i \in 1..(Len(cats) - 1) : cats[i].upper = cats[i + 1].lower
    /\ \A i \in DOMAIN cats :
          /\ FLess(cats[i].lower, cats[i].upper)
          /\ FSub(cats[i].upper, cats[i].lower) = FSub(cats[1].upper, cats[1].lower)

\* C25: update_renderer on a selected layer, in graduated mode with a class
\* count of MinClasses..MaxClasses: with visible points and min < max the layer
\* gets classes_count categories, each with the palette colour of its rank,
\* the palette holding classes_count colours, all different, over contiguous
\* intervals of equal width from min to max; with min = max it gets the
\* single-colour renderer; without visible points it keeps its renderer.
C25_GraduatedClasses ==
    [][ (UpdateButtonClicked /\ current_vpc_layer # 0) =>
           /\ classes_count \in MinClasses..MaxClasses
           /\ (canvas.count > 0 /\ canvas.min < canvas.max) =>
                 LET palette == GenerateColorPalette(classes_count)
                     cats == layer_renderer'.categories
                 IN /\ layer_renderer'.type = "classified"
                    /\ Len(cats) = classes_count
                    /\ Len(palette) = classes_count
                    /\ \A i \in DOMAIN cats : cats[i].color = palette[i]
                    /\ \A i, j \in DOMAIN cats : i # j => cats[i].color # cats[j].color
                    /\ EqualIntervals(cats, canvas.min, canvas.max)
           /\ (canvas.count > 0 /\ canvas.min = canvas.max) =>
                 layer_renderer'.type = "rgb"
           /\ canvas.count = 0 => layer_renderer' = layer_renderer
      ]_rvars

\* the layer carries MaxClasses categories from 0 to MaxAttrValue, set by the
\* update button
C25_Witness ==
    /\ last_update.by = "button"
    /\ layer_renderer.type = "classified"
    /\ Len(layer_renderer.categories) = MaxClasses
    /\ classes_count = MaxClasses
    /\ canvas = [count |-> 7, min |-> 0, max |-> MaxAttrValue]
    /\ layer_renderer.categories[1].lower = [n |-> 0, d |-> 1]
    /\ layer_renderer.categories[MaxClasses].upper = [n |-> MaxAttrValue, d |-> 1]

\* C26: after any sequence of digit, '.', operator, '=', 'C', sign-change and
\* backspace events the display shows "Erreur" or a text that float() accepts.
C26_DisplayParses == display = Erreur \/ ParsesAsFloat(display)

\* shown is left op right, stated by the inverse operation for '-' and '/'
Evaluates(op, left, right, shown) ==
    CASE op = "+" -> shown = FAdd(left, right)
      [] op = "-" -> FAdd(shown, right) = left
      [] op = "*" -> shown = FMul(left, right)
      [] op = "/" -> FMul(shown, right) = left

\* C27: an operator pressed after "a op1 b" shows a op1 b, whatever the two
\* operators are, stores it as the left operand and makes the new operator
\* pending; an operator pressed straight after an operator only replaces the
\* pending operator and computes nothing; '=' clears the pending operator, and
\* '=' straight after '=' changes nothing.
C27_ChainingLeftToRight ==
    [][ /\ \A op \in Operators :
             OperatorClicked(op) =>
                /\ ( /\ operator # "" /\ ~new_number
                     /\ ParsesAsFloat(display)
                     /\ ~(operator = "/" /\ FloatOf(display) = Zero) ) =>
                      /\ ParsesAsFloat(display')
                      /\ Evaluates(operator, result, FloatOf(display), FloatOf(display'))
                      /\ last_calc' = [by |-> "operator"]
                      /\ result' = FloatOf(display')
                      /\ operator' = op
                      /\ new_number'
                /\ ParsesAsFloat(display') =>
                      /\ new_number'
                      /\ operator' = op
                      /\ result' = FloatOf(display')
                /\ ( /\ new_number /\ operator # ""
                     /\ ParsesAsFloat(display)
                     /\ result = FloatOf(display) ) =>
                      /\ operator' = op
                      /\ UNCHANGED <<display, result, new_number, last_calc>>
        /\ EqualsClicked =>
             /\ operator' = ""
             /\ new_number'
             /\ display' = Erreur \/ ParsesAsFloat(display')
             /\ ( /\ operator = "" /\ new_number
                  /\ display = Erreur \/ ParsesAsFloat(display) ) => UNCHANGED cvars
      ]_cvars

\* "1 + 1 *" was typed: the sum 2 is shown and stored, '*' is pending
C27_Witness ==
    /\ last_calc = [by |-> "operator"]
    /\ operator = "*"
    /\ display = <<"2">>
    /\ result = [n |-> 2, d |-> 1]
    /\ new_number

\* a calculation of the state's display would divide by zero
DividesByZero ==
    /\ operator = "/"
    /\ ParsesAsFloat(display)
    /\ FloatOf(display) = Zero

\* a step in which calculate runs: '=', or an operator pressed after a number
\* was typed with an operator pending
CalculateRuns ==
    \/ EqualsClicked
    \/ ~new_number /\ \E op \in Operators : OperatorClicked(op)

\* C28: a calculation with '/' pending and 0 displayed shows "Erreur" and
\* leaves the stored left operand alone; the next digit typed then starts a
\* fresh number, and 'C' gives display "0", result 0 and no pending operator.
C28_DivisionByZero ==
    [][ /\ (CalculateRuns /\ DividesByZero) =>
             /\ display' = Erreur
             /\ result' = result
             /\ new_number'
        /\ \A k \in NumberKeys : (NumberClicked(k) /\ new_number) => display' = <<k>>
        /\ ClearClicked =>
             /\ display' = <<"0">>
             /\ result' = Zero
             /\ operator' = ""
             /\ new_number'
      ]_cvars

====
